---- MODULE Spec2Model ----
(***************************************************************************)
(* Model of the three scripts of ha-unifi-integration/scripts:             *)
(*   unifi_clients.py, debug_topology.py and test_unifi_auth.py.           *)
(*                                                                         *)
(* One run of one script is one behaviour.  The environment (credentials   *)
(* in the process environment, the controller's answer to every HTTP       *)
(* request, the vendor records it returns) is chosen nondeterministically. *)
(*                                                                         *)
(* An HTTP answer is modelled by its status code; 0 stands for a           *)
(* requests.exceptions.RequestException raised by the transport (timeout,  *)
(* connection refused, TLS failure).  A 2xx answer is assumed to carry a   *)
(* JSON object whose string-valued fields are strings.                     *)
(*                                                                         *)
(* Text is modelled as a sequence of code points so that str.lower() and   *)
(* Python's string ordering are computed, not assumed.                     *)
(***************************************************************************)
EXTENDS Integers, Sequences, FiniteSets, TLC

VARIABLES script, username, password, pc, requests, stdout, exit_code,
          device_names, devices, raw_devices, raw_clients, results, report

vars == <<script, username, password, pc, requests, stdout, exit_code,
          device_names, devices, raw_devices, raw_clients, results, report>>

(* ------------------------------ bounds --------------------------------- *)
MaxDevices == 2
MaxClients == 2
MaxPorts == 2
MaxNetworks == 2

(* ------------------------------ text ----------------------------------- *)
S_a == <<97>>
S_A == <<65>>
S_b == <<98>>
S_B == <<66>>
S_empty == <<>>
S_Unknown == <<85, 110, 107, 110, 111, 119, 110>>
S_UnknownSwitch == <<85, 110, 107, 110, 111, 119, 110, 32, 83, 119, 105, 116, 99, 104>>

\* str.lower() on ASCII text
Lower(s) == [i \in DOMAIN s |-> IF s[i] >= 65 /\ s[i] <= 90 THEN s[i] + 32 ELSE s[i]]

\* Python's  a < b  on str: lexicographic by code point
RECURSIVE StrLess(_, _)
StrLess(a, b) ==
    IF b = <<>> THEN FALSE
    ELSE IF a = <<>> THEN TRUE
    ELSE IF a[1] < b[1] THEN TRUE
    ELSE IF a[1] > b[1] THEN FALSE
    ELSE StrLess(Tail(a), Tail(b))

StrLeq(a, b) == ~StrLess(b, a)

\* text constants of format_device / format_port and of the vendor fixtures
S_lan == <<108, 97, 110>>   \* "lan"
S_LAN == <<76, 65, 78>>   \* "LAN"
S_WAN == <<87, 65, 78>>   \* "WAN"
S_Port == <<80, 111, 114, 116, 32>>   \* "Port "
S_question == <<63>>   \* "?"
S_ip_wan == <<49, 46, 50, 46, 51, 46, 52>>   \* "1.2.3.4"
S_ip_lan == <<49, 48, 46, 48, 46, 48, 46, 49>>   \* "10.0.0.1"
S_ip_cfg == <<49, 48, 46, 48, 46, 48, 46, 50>>   \* "10.0.0.2"
S_subnet_lan == <<49, 48, 46, 48, 46, 48, 46, 49, 47, 50, 52>>   \* "10.0.0.1/24"
S_subnet_lan2 == <<49, 48, 46, 48, 46, 49, 46, 49, 47, 50, 52>>   \* "10.0.1.1/24"
S_subnet_wan == <<49, 46, 50, 46, 51, 46, 52, 47, 51, 48>>   \* "1.2.3.4/30"
S_subnet_noaddr == <<47, 50, 52>>   \* "/24"
S_ip_192 == <<49, 57, 50, 46, 49, 54, 56, 46, 49, 46, 53>>   \* "192.168.1.5"
S_ip_172 == <<49, 55, 50, 46, 49, 54, 46, 48, 46, 57>>   \* "172.16.0.9"
S_ip_public == <<56, 46, 56, 46, 56, 46, 56>>   \* "8.8.8.8"
S_pfx_192 == <<49, 57, 50, 46, 49, 54, 56, 46>>   \* "192.168."
S_pfx_10 == <<49, 48, 46>>   \* "10."
S_pfx_172 == <<49, 55, 50, 46>>   \* "172."

\* s.split("/")[0]: the text before the first "/" (all of s when there is none)
SplitSlashFirst(s) ==
    LET slashes == {i \in DOMAIN s : s[i] = 47}
    IN IF slashes = {} THEN s
       ELSE SubSeq(s, 1, (CHOOSE i \in slashes : \A j \in slashes : i <= j) - 1)

\* sub in s
Contains(s, sub) ==
    \E k \in 0..(Len(s) - Len(sub)) : SubSeq(s, k + 1, k + Len(sub)) = sub

\* s.startswith(prefix)
StartsWith(s, prefix) ==
    Len(s) >= Len(prefix) /\ SubSeq(s, 1, Len(prefix)) = prefix

\* str(n) for a non-negative int, as the f-string of format_port renders it
RECURSIVE IntToStr(_)
IntToStr(n) == IF n < 10 THEN <<48 + n>> ELSE IntToStr(n \div 10) \o <<48 + (n % 10)>>

\* dict.get(key, default)
Get(d, key, default) == IF key \in DOMAIN d THEN d[key] ELSE default

\* list.sort(key=...): stable, ascending; keys[i] is the key of seq[i]
list_sort_unsorted(seq, keys) == seq
list_sort(seq, keys) ==
    LET n == Len(seq)
        Rank(i) == Cardinality({j \in 1..n : StrLess(keys[j], keys[i])
                                             \/ (keys[j] = keys[i] /\ j < i)}) + 1
    IN [p \in 1..n |-> seq[CHOOSE i \in 1..n : Rank(i) = p]]

(* -------------------------- environment -------------------------------- *)
Scripts == {"unifi_clients", "debug_topology", "test_unifi_auth"}

Usernames == {"", "admin"}
Passwords == {"", "secret"}

\* status codes the controller may answer with; 0 = RequestException raised
NetworkError == 0
Responses == {NetworkError, 200, 401, 403, 500}

\* vendor device records (stat/device)
DeviceRecords ==
    { [mac |-> "m1", name |-> S_b, model |-> S_A, type |-> "usw"],
      [mac |-> "m2", name |-> S_A, type |-> "uap"],
      [mac |-> "m3", model |-> S_a, type |-> "udm"] }

\* vendor client records (stat/sta)
ClientRecords ==
    { [mac |-> "c1", hostname |-> S_b, name |-> S_A, is_wired |-> TRUE, sw_mac |-> "m1"],
      [mac |-> "c2", hostname |-> S_a, name |-> S_B, is_wired |-> FALSE, sw_mac |-> "m3"],
      [mac |-> "c3", name |-> S_B, is_wired |-> TRUE, sw_mac |-> "m2"],
      [mac |-> "c4"] }

SeqsUpTo(S, n) == UNION {[1..k -> S] : k \in 0..n}

DeviceLists == SeqsUpTo(DeviceRecords, MaxDevices)
ClientLists == SeqsUpTo(ClientRecords, MaxClients)

\* vendor device records for whole documents: a named switch, an access
\* point that its owner named "Unknown Switch", a gateway with a model only,
\* a device with neither name nor model and an unrecognised type that shares
\* a mac with the gateway, a second record for mac m1 whose type is spelled
\* like a category, and a record with no mac and no type
OutputDeviceRecords ==
    { [mac |-> "m1", name |-> S_b, type |-> "usw"],
      [mac |-> "m2", name |-> S_UnknownSwitch, type |-> "uap"],
      [mac |-> "m3", model |-> S_a, type |-> "udm"],
      [mac |-> "m3", type |-> "uph"],
      [mac |-> "m1", name |-> S_A, type |-> "gateway"],
      [name |-> S_B] }
OutputDeviceLists == SeqsUpTo(OutputDeviceRecords, MaxDevices)

\* an optional key of a vendor record: absent, or present with one of vals
Optional(key, vals) == {<<>>} \cup {key :> v : v \in vals}

\* device types: the eleven the code recognises, one it does not, and one
\* that is spelled like a category
RecognisedTypes == {"usw", "usw-pro", "usw-flex", "uap", "uap-pro", "uap-ac", "u6",
                    "ugw", "udm", "udr", "uxg"}
DeviceTypes == RecognisedTypes \cup {"uph", "gateway"}

\* port_table entries of a vendor device record
PortRecords ==
    { [port_idx |-> 1, up |-> TRUE, name |-> S_WAN],
      [port_idx |-> 2, up |-> FALSE],
      [port_idx |-> 12, is_uplink |-> TRUE],
      [up |-> TRUE] }
PortTables == SeqsUpTo(PortRecords, MaxPorts)

\* network_table entries of a vendor gateway record
NetworkRecords ==
    { [name |-> S_LAN, ip_subnet |-> S_subnet_lan],
      [name |-> S_WAN, ip_subnet |-> S_subnet_wan],
      [name |-> S_WAN, is_default |-> TRUE, ip_subnet |-> S_subnet_lan2],
      [name |-> S_LAN, ip_subnet |-> S_subnet_noaddr],
      [is_default |-> TRUE] }
NetworkTables == SeqsUpTo(NetworkRecords, MaxNetworks)

\* vendor device records that exercise the category and port logic
TypedDevices ==
    { ("mac" :> "m1") @@ t @@ pt :
        t \in Optional("type", DeviceTypes), pt \in Optional("port_table", PortTables) }

\* vendor device records that exercise the ip logic
AddressedDevices ==
    { ("mac" :> "m1") @@ ("type" :> t) @@ ip @@ nt @@ cn @@ cr :
        t \in {"udm", "usw"},
        ip \in Optional("ip", {S_ip_wan, S_ip_lan}),
        nt \in Optional("network_table", NetworkTables),
        cn \in Optional("config_network", {<<>>, [ip |-> S_ip_cfg]}),
        cr \in Optional("connect_request_ip", {S_ip_192, S_ip_172, S_ip_public, S_ip_lan}) }

(* --------------------------- HTTP helpers ------------------------------ *)
\* endpoints
URL_auth == "/api/auth/login"
URL_auth_legacy == ":8443/api/login"
URL_sta == "/proxy/network/api/s/{site}/stat/sta"
URL_sta_legacy == ":8443/api/s/{site}/stat/sta"
URL_device == "/proxy/network/api/s/{site}/stat/device"
URL_root == "/"

Req(url, status) == [url |-> url, status |-> status]

\* session.post / session.get followed by response.raise_for_status():
\* TRUE when a RequestException reaches the except clause
Raises(status) == status = NetworkError \/ (status >= 400 /\ status < 600)

(* ======================== unifi_clients.py ============================= *)

\* authenticate(session, config): r1 answers the primary login, r2 the legacy
\* login.  ok is the return value, reqs the requests issued in order, out
\* what the function prints.
authenticate_retry(r1, r2) ==
    IF ~Raises(r1)
    THEN [ok |-> TRUE, reqs |-> <<Req(URL_auth, r1)>>, out |-> <<>>]
    ELSE [ok |-> ~Raises(r2),
          reqs |-> <<Req(URL_auth, r1), Req(URL_auth_legacy, r2), Req(URL_auth_legacy, r2)>>,
          out |-> IF Raises(r2)
                  THEN <<[error |-> "Authentication failed", clients |-> <<>>]>>
                  ELSE <<>>]
authenticate_silent(r1, r2) ==
    IF ~Raises(r1)
    THEN [ok |-> TRUE, reqs |-> <<Req(URL_auth, r1)>>, out |-> <<>>]
    ELSE [ok |-> ~Raises(r2),
          reqs |-> <<Req(URL_auth, r1), Req(URL_auth_legacy, r2)>>,
          out |-> <<>>]
authenticate(r1, r2) ==
    IF ~Raises(r1)
    THEN [ok |-> TRUE, reqs |-> <<Req(URL_auth, r1)>>, out |-> <<>>]
    ELSE IF ~Raises(r2)
    THEN [ok |-> TRUE,
          reqs |-> <<Req(URL_auth, r1), Req(URL_auth_legacy, r2)>>,
          out |-> <<>>]
    ELSE [ok |-> FALSE,
          reqs |-> <<Req(URL_auth, r1), Req(URL_auth_legacy, r2)>>,
          out |-> <<[error |-> "Authentication failed", clients |-> <<>>]>>]

\* get_clients(session, config): r1 answers the primary stat/sta request, r2
\* the legacy one; data is the "data" list of the answer that succeeds.
get_clients_nofallback(r1, r2, data) ==
    IF ~Raises(r1)
    THEN [reqs |-> <<Req(URL_sta, r1)>>, clients |-> data]
    ELSE [reqs |-> <<Req(URL_sta, r1)>>, clients |-> <<>>]
get_clients(r1, r2, data) ==
    IF ~Raises(r1)
    THEN [reqs |-> <<Req(URL_sta, r1)>>, clients |-> data]
    ELSE IF ~Raises(r2)
    THEN [reqs |-> <<Req(URL_sta, r1), Req(URL_sta_legacy, r2)>>, clients |-> data]
    ELSE [reqs |-> <<Req(URL_sta, r1), Req(URL_sta_legacy, r2)>>, clients |-> <<>>]

\* device category and display name, from format_device
device_category_nouxg(device_type) ==
    IF device_type \in {"usw", "usw-pro", "usw-flex"} THEN "switch"
    ELSE IF device_type \in {"uap", "uap-pro", "uap-ac", "u6"} THEN "access_point"
    ELSE IF device_type \in {"ugw", "udm", "udr"} THEN "gateway"
    ELSE device_type
device_category(device_type) ==
    IF device_type \in {"usw", "usw-pro", "usw-flex"} THEN "switch"
    ELSE IF device_type \in {"uap", "uap-pro", "uap-ac", "u6"} THEN "access_point"
    ELSE IF device_type \in {"ugw", "udm", "udr", "uxg"} THEN "gateway"
    ELSE device_type

device_name(d) == Get(d, "name", Get(d, "model", S_Unknown))

\* format_port(port)
format_port(port) ==
    [port_idx |-> Get(port, "port_idx", "None"),
     name |-> Get(port, "name",
                  S_Port \o (IF "port_idx" \in DOMAIN port
                             THEN IntToStr(port["port_idx"]) ELSE S_question)),
     up |-> Get(port, "up", FALSE),
     speed |-> Get(port, "speed", 0),
     full_duplex |-> Get(port, "full_duplex", FALSE),
     poe_enable |-> Get(port, "poe_enable", FALSE),
     poe_mode |-> Get(port, "poe_mode", S_empty),
     poe_power |-> Get(port, "poe_power", S_empty),
     is_uplink |-> Get(port, "is_uplink", FALSE),
     mac |-> Get(port, "mac", ""),
     lldp_remote_mac |-> Get(port, "lldp_remote_mac", ""),
     port_mac |-> Get(port, "port_mac", "")]

\* format_device: the ip_address computation (lines 155-186)
device_ip(d, category) ==
    LET ip0 == Get(d, "ip", S_empty)
        network_table == Get(d, "network_table", <<>>)
        LanIp(i) == SplitSlashFirst(Get(network_table[i], "ip_subnet", S_empty))
        hits == {i \in DOMAIN network_table :
                   /\ \/ Contains(Lower(Get(network_table[i], "name", S_empty)), S_lan)
                      \/ Get(network_table[i], "is_default", FALSE)
                   /\ LanIp(i) # <<>>}
        ip1 == IF hits # {}
               THEN LanIp(CHOOSE i \in hits : \A j \in hits : i <= j)
               ELSE ip0
        config_ip == Get(Get(d, "config_network", <<>>), "ip", S_empty)
        ip2 == IF (ip1 = <<>> \/ ip1 = ip0) /\ config_ip # <<>> THEN config_ip ELSE ip1
        connect_ip == Get(d, "connect_request_ip", S_empty)
        ip3 == IF /\ (ip2 = <<>> \/ ip2 = ip0)
                  /\ connect_ip # <<>>
                  /\ \/ StartsWith(connect_ip, S_pfx_192)
                     \/ StartsWith(connect_ip, S_pfx_10)
                     \/ StartsWith(connect_ip, S_pfx_172)
               THEN connect_ip ELSE ip2
    IN IF category = "gateway" THEN ip3 ELSE ip0

\* format_device(device)
format_device(d) ==
    LET device_type == Get(d, "type", "unknown")
        category == device_category(device_type)
        port_table == Get(d, "port_table", <<>>)
    IN [mac |-> Get(d, "mac", ""),
        name |-> device_name(d),
        model |-> Get(d, "model", S_empty),
        type |-> device_type,
        category |-> category,
        ip |-> device_ip(d, category),
        gateway_mac |-> Get(d, "gateway_mac", ""),
        state |-> Get(d, "state", 0),
        adopted |-> Get(d, "adopted", FALSE),
        uptime |-> Get(d, "uptime", 0),
        last_seen |-> Get(d, "last_seen", 0),
        version |-> Get(d, "version", S_empty),
        upgradable |-> Get(d, "upgradable", FALSE),
        ports_total |-> Len(port_table),
        ports_used |-> Cardinality({i \in DOMAIN port_table : Get(port_table[i], "up", FALSE)}),
        port_table |-> IF category \in {"switch", "gateway"}
                       THEN [i \in DOMAIN port_table |-> format_port(port_table[i])]
                       ELSE <<>>,
        num_sta |-> Get(d, "num_sta", 0),
        channel |-> Get(d, "channel", S_empty),
        radio_table |-> Get(d, "radio_table", <<>>),
        cpu |-> Get(Get(d, "system-stats", <<>>), "cpu", S_empty),
        mem |-> Get(Get(d, "system-stats", <<>>), "mem", S_empty),
        loadavg_1 |-> Get(Get(d, "sys_stats", <<>>), "loadavg_1", S_empty)]

\* the dict comprehension of get_devices: a later record with the same mac
\* overwrites an earlier one
name_map_of(raw) ==
    LET macs == {Get(raw[i], "mac", "None") : i \in DOMAIN raw}
        Last(m) == CHOOSE i \in DOMAIN raw :
                      /\ Get(raw[i], "mac", "None") = m
                      /\ \A j \in DOMAIN raw : Get(raw[j], "mac", "None") = m => j <= i
    IN [m \in macs |-> device_name(raw[Last(m)])]

\* get_devices(session, config): r answers the stat/device request
get_devices_fallback(r, data) ==
    IF ~Raises(r)
    THEN [reqs |-> <<Req(URL_device, r)>>,
          raw_devices |-> data,
          name_map |-> name_map_of(data),
          devices_list |-> [i \in DOMAIN data |-> format_device(data[i])]]
    ELSE [reqs |-> <<Req(URL_device, r), Req(URL_device, r)>>,
          raw_devices |-> <<>>, name_map |-> <<>>, devices_list |-> <<>>]
get_devices(r, data) ==
    IF ~Raises(r)
    THEN [reqs |-> <<Req(URL_device, r)>>,
          raw_devices |-> data,
          name_map |-> name_map_of(data),
          devices_list |-> [i \in DOMAIN data |-> format_device(data[i])]]
    ELSE [reqs |-> <<Req(URL_device, r)>>,
          raw_devices |-> <<>>, name_map |-> <<>>, devices_list |-> <<>>]

\* format_client(client, device_names)
format_client_wrong_key(c, names) ==
    LET sw_mac == Get(c, "sw_mac", "")
    IN [mac |-> Get(c, "mac", ""),
        hostname |-> Get(c, "hostname", Get(c, "name", S_Unknown)),
        name |-> Get(c, "name", Get(c, "hostname", S_empty)),
        sw_mac |-> sw_mac,
        sw_name |-> Get(names, Get(c, "mac", ""), S_UnknownSwitch),
        is_wired |-> Get(c, "is_wired", FALSE)]
format_client(c, names) ==
    LET sw_mac == Get(c, "sw_mac", "")
    IN [mac |-> Get(c, "mac", ""),
        hostname |-> Get(c, "hostname", Get(c, "name", S_Unknown)),
        name |-> Get(c, "name", Get(c, "hostname", S_empty)),
        sw_mac |-> sw_mac,
        sw_name |-> Get(names, sw_mac, S_UnknownSwitch),
        is_wired |-> Get(c, "is_wired", FALSE)]

\* sum(1 for x in seq if x.get(key) ...) and len([x for x in seq if ...])
CountWhere(seq, key, default, value) ==
    Cardinality({i \in DOMAIN seq : Get(seq[i], key, default) = value})

\* the tail of main(): format, sort, count, build the output document
main_output_categorised_count(names, devs, raw) ==
    LET formatted == [i \in DOMAIN raw |-> format_client(raw[i], names)]
        clients == list_sort(formatted,
                       [i \in DOMAIN formatted |-> Lower(Get(formatted[i], "hostname", S_empty))])
        sdevs == list_sort(devs,
                       [i \in DOMAIN devs |-> Lower(Get(devs[i], "name", S_empty))])
    IN [clients |-> clients,
        total_count |-> Len(clients),
        wired_count |-> CountWhere(clients, "is_wired", FALSE, TRUE),
        wireless_count |-> CountWhere(clients, "is_wired", FALSE, FALSE),
        devices |-> sdevs,
        device_count |-> CountWhere(sdevs, "category", "", "switch")
                        + CountWhere(sdevs, "category", "", "access_point")
                        + CountWhere(sdevs, "category", "", "gateway"),
        switch_count |-> CountWhere(sdevs, "category", "", "switch"),
        ap_count |-> CountWhere(sdevs, "category", "", "access_point"),
        gateway_count |-> CountWhere(sdevs, "category", "", "gateway")]
main_output(names, devs, raw) ==
    LET formatted == [i \in DOMAIN raw |-> format_client(raw[i], names)]
        clients == list_sort(formatted,
                       [i \in DOMAIN formatted |-> Lower(Get(formatted[i], "hostname", S_empty))])
        sdevs == list_sort(devs,
                       [i \in DOMAIN devs |-> Lower(Get(devs[i], "name", S_empty))])
    IN [clients |-> clients,
        total_count |-> Len(clients),
        wired_count |-> CountWhere(clients, "is_wired", FALSE, TRUE),
        wireless_count |-> CountWhere(clients, "is_wired", FALSE, FALSE),
        devices |-> sdevs,
        device_count |-> Len(sdevs),
        switch_count |-> CountWhere(sdevs, "category", "", "switch"),
        ap_count |-> CountWhere(sdevs, "category", "", "access_point"),
        gateway_count |-> CountWhere(sdevs, "category", "", "gateway")]

Running == -1

\* main(): get_config() and the credential check
Main_ValidateConfig ==
    /\ script = "unifi_clients" /\ pc = "start"
    /\ IF username = "" \/ password = ""
       THEN /\ stdout' = Append(stdout, [error |-> "Missing UNIFI_USERNAME or UNIFI_PASSWORD environment variables",
                                         clients |-> <<>>, devices |-> <<>>])
            /\ exit_code' = 1
            /\ pc' = "exited"
       ELSE /\ pc' = "authenticate"
            /\ UNCHANGED <<stdout, exit_code>>
    /\ UNCHANGED <<script, username, password, requests, device_names, devices,
                   raw_devices, raw_clients, results, report>>

\* main(): if not authenticate(session, config): sys.exit(1)
Main_Authenticate_continue ==
    /\ script = "unifi_clients" /\ pc = "authenticate"
    /\ \E r1 \in Responses, r2 \in Responses :
         LET a == authenticate(r1, r2)
         IN /\ requests' = requests \o a.reqs
            /\ stdout' = stdout \o a.out
            /\ pc' = "get_devices"
            /\ UNCHANGED exit_code
    /\ UNCHANGED <<script, username, password, device_names, devices,
                   raw_devices, raw_clients, results, report>>
Main_Authenticate ==
    /\ script = "unifi_clients" /\ pc = "authenticate"
    /\ \E r1 \in Responses, r2 \in Responses :
         LET a == authenticate(r1, r2)
         IN /\ requests' = requests \o a.reqs
            /\ stdout' = stdout \o a.out
            /\ IF a.ok
               THEN pc' = "get_devices" /\ UNCHANGED exit_code
               ELSE pc' = "exited" /\ exit_code' = 1
    /\ UNCHANGED <<script, username, password, device_names, devices,
                   raw_devices, raw_clients, results, report>>

\* main(): device_names, devices = get_devices(session, config)
Main_GetDevices ==
    /\ script = "unifi_clients" /\ pc = "get_devices"
    /\ \E r \in Responses, data \in DeviceLists :
         LET g == get_devices(r, data)
         IN /\ requests' = requests \o g.reqs
            /\ device_names' = g.name_map
            /\ devices' = g.devices_list
            /\ raw_devices' = g.raw_devices
    /\ pc' = "get_clients"
    /\ UNCHANGED <<script, username, password, stdout, exit_code,
                   raw_clients, results, report>>

\* main(): raw_clients = get_clients(session, config)
Main_GetClients ==
    /\ script = "unifi_clients" /\ pc = "get_clients"
    /\ \E r1 \in Responses, r2 \in Responses, data \in ClientLists :
         LET g == get_clients(r1, r2, data)
         IN /\ requests' = requests \o g.reqs
            /\ raw_clients' = g.clients
    /\ pc' = "output"
    /\ UNCHANGED <<script, username, password, stdout, exit_code,
                   device_names, devices, raw_devices, results, report>>

\* main(): format, sort, count, print(json.dumps(output)); the interpreter
\* then exits with status 0
Main_Output ==
    /\ script = "unifi_clients" /\ pc = "output"
    /\ stdout' = Append(stdout, main_output(device_names, devices, raw_clients))
    /\ exit_code' = 0
    /\ pc' = "exited"
    /\ UNCHANGED <<script, username, password, requests, device_names, devices,
                   raw_devices, raw_clients, results, report>>

(* ======================== debug_topology.py ============================ *)

\* main(): the credential check
Debug_ValidateConfig ==
    /\ script = "debug_topology" /\ pc = "start"
    /\ IF username = "" \/ password = ""
       THEN /\ report' = Append(report, [test |-> "ERROR: Set UNIFI_USERNAME and UNIFI_PASSWORD", passed |-> FALSE])
            /\ exit_code' = 1
            /\ pc' = "exited"
       ELSE /\ pc' = "login"
            /\ UNCHANGED <<report, exit_code>>
    /\ UNCHANGED <<script, username, password, requests, stdout, device_names,
                   devices, raw_devices, raw_clients, results>>

\* main(): session.post(auth_url, ...) outside any try; an exception is
\* uncaught and the interpreter exits with status 1
Debug_Login ==
    /\ script = "debug_topology" /\ pc = "login"
    /\ \E r \in Responses :
         /\ requests' = Append(requests, Req(URL_auth, r))
         /\ IF r = NetworkError
            THEN /\ exit_code' = 1 /\ pc' = "exited" /\ UNCHANGED report
            ELSE IF r # 200
            THEN /\ report' = Append(report, [test |-> "Login failed", passed |-> FALSE])
                 /\ exit_code' = 1 /\ pc' = "exited"
            ELSE /\ report' = Append(report, [test |-> "Login successful", passed |-> TRUE])
                 /\ pc' = "get_devices" /\ UNCHANGED exit_code
    /\ UNCHANGED <<script, username, password, stdout, device_names, devices,
                   raw_devices, raw_clients, results>>

\* main(): session.get(devices_url, ...), resp.json().get("data", []) with no
\* status check, the dump of every device, and the normal exit.  A transport
\* exception is uncaught (status 1); an error answer either carries a JSON
\* body with no devices or a body json() rejects (uncaught, status 1).
Debug_GetDevices ==
    /\ script = "debug_topology" /\ pc = "get_devices"
    /\ \E r \in Responses, data \in DeviceLists, json_body \in BOOLEAN :
         /\ requests' = Append(requests, Req(URL_device, r))
         /\ IF r = NetworkError \/ (r # 200 /\ ~json_body)
            THEN /\ exit_code' = 1 /\ UNCHANGED report
            ELSE /\ report' = Append(report, [test |-> "Found devices",
                                              passed |-> r = 200 /\ Len(data) > 0])
                 /\ exit_code' = 0
    /\ pc' = "exited"
    /\ UNCHANGED <<script, username, password, stdout, device_names, devices,
                   raw_devices, raw_clients, results>>

(* ======================== test_unifi_auth.py =========================== *)

PR(test, passed) == [test |-> test, passed |-> passed]

\* test_auth_endpoint(): r1 answers the primary login, r3 the stat/device
\* probe that follows a 200, r2 the legacy login.  ret is the return value,
\* reqs the requests issued in order, out the print_result lines.
test_auth_endpoint_always_legacy(user, pass, r1, r3, r2) ==
    LET cred == <<PR("Credentials provided", TRUE)>>
        legacy(before) ==
            IF r2 = 200
            THEN [ret |-> TRUE,
                  reqs |-> before \o <<Req(URL_auth_legacy, r2)>>,
                  out |-> <<PR("Legacy auth (Controller)", TRUE)>>]
            ELSE [ret |-> FALSE,
                  reqs |-> before \o <<Req(URL_auth_legacy, r2)>>,
                  out |-> (IF r2 = NetworkError THEN <<>>
                           ELSE <<PR("Legacy auth (Controller)", FALSE)>>)
                          \o <<PR("Authentication", FALSE)>>]
        WithOut(prefix, res) == [res EXCEPT !.out = prefix \o res.out]
    IN IF user = "" \/ pass = ""
       THEN [ret |-> FALSE, reqs |-> <<>>, out |-> <<PR("Credentials provided", FALSE)>>]
       ELSE IF r1 = NetworkError
       THEN WithOut(cred, legacy(<<Req(URL_auth, r1)>>))
       ELSE IF r1 = 200
       THEN IF r3 = NetworkError
            THEN WithOut(cred \o <<PR("Primary auth (UniFi OS)", TRUE)>>,
                         legacy(<<Req(URL_auth, r1), Req(URL_device, r3)>>))
            ELSE [ret |-> TRUE,
                  reqs |-> <<Req(URL_auth, r1), Req(URL_device, r3)>>,
                  out |-> cred \o <<PR("Primary auth (UniFi OS)", TRUE),
                                    PR("API access", r3 = 200)>>]
       ELSE WithOut(cred \o <<PR("Primary auth (UniFi OS)", FALSE)>>,
                    legacy(<<Req(URL_auth, r1)>>))
test_auth_endpoint(user, pass, r1, r3, r2) ==
    LET cred == <<PR("Credentials provided", TRUE)>>
        legacy(before) ==
            IF r2 = 200
            THEN [ret |-> TRUE,
                  reqs |-> before \o <<Req(URL_auth_legacy, r2)>>,
                  out |-> <<PR("Legacy auth (Controller)", TRUE)>>]
            ELSE [ret |-> FALSE,
                  reqs |-> before \o <<Req(URL_auth_legacy, r2)>>,
                  out |-> (IF r2 = NetworkError THEN <<>>
                           ELSE <<PR("Legacy auth (Controller)", FALSE)>>)
                          \o <<PR("Authentication", FALSE)>>]
        WithOut(prefix, res) == [res EXCEPT !.out = prefix \o res.out]
    IN IF user = "" \/ pass = ""
       THEN [ret |-> FALSE, reqs |-> <<>>, out |-> <<PR("Credentials provided", FALSE)>>]
       ELSE IF r1 = NetworkError
       THEN WithOut(cred, legacy(<<Req(URL_auth, r1)>>))
       ELSE IF r1 = 200
       THEN IF r3 = NetworkError
            THEN WithOut(cred \o <<PR("Primary auth (UniFi OS)", TRUE)>>,
                         legacy(<<Req(URL_auth, r1), Req(URL_device, r3)>>))
            ELSE [ret |-> TRUE,
                  reqs |-> <<Req(URL_auth, r1), Req(URL_device, r3)>>,
                  out |-> cred \o <<PR("Primary auth (UniFi OS)", TRUE),
                                    PR("API access", r3 = 200)>>]
       ELSE IF r1 = 401 \/ r1 = 403
       THEN [ret |-> FALSE,
             reqs |-> <<Req(URL_auth, r1)>>,
             out |-> cred \o <<PR("Primary auth (UniFi OS)", FALSE)>>]
       ELSE WithOut(cred \o <<PR("Primary auth (UniFi OS)", FALSE)>>,
                    legacy(<<Req(URL_auth, r1)>>))

\* main(): results.append(("DNS/Network", test_dns_resolution()))
TestAuth_DnsResolution ==
    /\ script = "test_unifi_auth" /\ pc = "start"
    /\ \E resolved \in BOOLEAN :
         /\ report' = Append(report, PR("DNS/IP resolution", resolved))
         /\ results' = Append(results, PR("DNS/Network", resolved))
    /\ pc' = "test_port"
    /\ UNCHANGED <<script, username, password, requests, stdout, exit_code,
                   device_names, devices, raw_devices, raw_clients>>

\* main(): results.append(("Port Access", test_port_connectivity()))
TestAuth_PortConnectivity ==
    /\ script = "test_unifi_auth" /\ pc = "test_port"
    /\ \E open \in BOOLEAN :
         /\ report' = Append(report, PR("Port 443 (HTTPS)", open))
         /\ results' = Append(results, PR("Port Access", open))
    /\ pc' = "test_https"
    /\ UNCHANGED <<script, username, password, requests, stdout, exit_code,
                   device_names, devices, raw_devices, raw_clients>>

\* main(): results.append(("HTTPS", test_https_connection())); any answer
\* passes, an exception fails.  unifi says whether the body names UniFi.
TestAuth_HttpsConnection ==
    /\ script = "test_unifi_auth" /\ pc = "test_https"
    /\ \E r \in Responses, unifi \in BOOLEAN :
         /\ requests' = Append(requests, Req(URL_root, r))
         /\ report' = IF r = NetworkError
                      THEN Append(report, PR("HTTPS connection", FALSE))
                      ELSE report \o <<PR("HTTPS connection", TRUE),
                                       PR("UniFi detection", unifi)>>
         /\ results' = Append(results, PR("HTTPS", r # NetworkError))
    /\ pc' = "test_auth"
    /\ UNCHANGED <<script, username, password, stdout, exit_code,
                   device_names, devices, raw_devices, raw_clients>>

\* main(): results.append(("Authentication", test_auth_endpoint()))
TestAuth_AuthEndpoint ==
    /\ script = "test_unifi_auth" /\ pc = "test_auth"
    /\ \E r1 \in Responses, r3 \in Responses, r2 \in Responses :
         LET t == test_auth_endpoint(username, password, r1, r3, r2)
         IN /\ requests' = requests \o t.reqs
            /\ report' = report \o t.out
            /\ results' = Append(results, PR("Authentication", t.ret))
    /\ pc' = "summary"
    /\ UNCHANGED <<script, username, password, stdout, exit_code,
                   device_names, devices, raw_devices, raw_clients>>

\* main(): test_2fa_check(), the summary, and the return; main() never calls
\* sys.exit, so the interpreter exits with status 0
TestAuth_Summary ==
    /\ script = "test_unifi_auth" /\ pc = "summary"
    /\ exit_code' = 0
    /\ pc' = "exited"
    /\ UNCHANGED <<script, username, password, requests, stdout, device_names,
                   devices, raw_devices, raw_clients, results, report>>

Init ==
    /\ script \in Scripts
    /\ username \in Usernames
    /\ password \in Passwords
    /\ pc = "start"
    /\ requests = <<>>
    /\ stdout = <<>>
    /\ exit_code = Running
    /\ device_names = <<>>
    /\ devices = <<>>
    /\ raw_devices = <<>>
    /\ raw_clients = <<>>
    /\ results = <<>>
    /\ report = <<>>

Next ==
    \/ Main_ValidateConfig
    \/ Main_Authenticate
    \/ Main_GetDevices
    \/ Main_GetClients
    \/ Main_Output
    \/ Debug_ValidateConfig
    \/ Debug_Login
    \/ Debug_GetDevices
    \/ TestAuth_DnsResolution
    \/ TestAuth_PortConnectivity
    \/ TestAuth_HttpsConnection
    \/ TestAuth_AuthEndpoint
    \/ TestAuth_Summary

Spec == Init /\ [][Next]_vars

(* --------------- format_device on one vendor record -------------------- *)

\* unifi_clients.py after a successful primary login, about to fetch devices
FormatDevice_Init ==
    /\ script = "unifi_clients"
    /\ username = "admin"
    /\ password = "secret"
    /\ pc = "get_devices"
    /\ requests = <<Req(URL_auth, 200)>>
    /\ stdout = <<>>
    /\ exit_code = Running
    /\ device_names = <<>>
    /\ devices = <<>>
    /\ raw_devices = <<>>
    /\ raw_clients = <<>>
    /\ results = <<>>
    /\ report = <<>>

\* get_devices on an answer that carries one device record
FormatDevice_GetDevices ==
    /\ script = "unifi_clients" /\ pc = "get_devices"
    /\ \E d \in TypedDevices \cup AddressedDevices :
         LET g == get_devices(200, <<d>>)
         IN /\ requests' = requests \o g.reqs
            /\ device_names' = g.name_map
            /\ devices' = g.devices_list
            /\ raw_devices' = g.raw_devices
    /\ pc' = "get_clients"
    /\ UNCHANGED <<script, username, password, stdout, exit_code,
                   raw_clients, results, report>>

FormatDevice_Next == FormatDevice_GetDevices

FormatDeviceSpec == FormatDevice_Init /\ [][FormatDevice_Next]_vars

(* ------------- the printed document on richer device data -------------- *)

\* main(): device_names, devices = get_devices(session, config)
Output_GetDevices ==
    /\ script = "unifi_clients" /\ pc = "get_devices"
    /\ \E r \in Responses, data \in OutputDeviceLists :
         LET g == get_devices(r, data)
         IN /\ requests' = requests \o g.reqs
            /\ device_names' = g.name_map
            /\ devices' = g.devices_list
            /\ raw_devices' = g.raw_devices
    /\ pc' = "get_clients"
    /\ UNCHANGED <<script, username, password, stdout, exit_code,
                   raw_clients, results, report>>

Output_Next ==
    \/ Output_GetDevices
    \/ Main_GetClients
    \/ Main_Output

\* unifi_clients.py from a successful primary login to the exit
OutputSpec == FormatDevice_Init /\ [][Output_Next]_vars

(* ============================ properties =============================== *)

CountUrl(url) == Cardinality({i \in DOMAIN requests : requests[i].url = url})
Requested(url) == \E i \in DOMAIN requests : requests[i].url = url
Failed(url) == \E i \in DOMAIN requests : requests[i].url = url /\ Raises(requests[i].status)
Succeeded(url) == \E i \in DOMAIN requests : requests[i].url = url /\ ~Raises(requests[i].status)

LoginUrls == {URL_auth, URL_auth_legacy}
ClientUrls == {URL_sta, URL_sta_legacy}
DataUrls == {URL_device} \cup ClientUrls
AllUrls == LoginUrls \cup DataUrls \cup {URL_root}

Exited == pc = "exited"
CredentialsMissing == username = "" \/ password = ""

\* the login of the running script has been attempted and has failed
AuthenticationFailed ==
    \/ script = "unifi_clients" /\ Failed(URL_auth) /\ Failed(URL_auth_legacy)
    \/ script = "debug_topology"
         /\ \E i \in DOMAIN requests : requests[i].url = URL_auth /\ requests[i].status # 200
    \/ script = "test_unifi_auth"
         /\ \E i \in DOMAIN results : results[i] = PR("Authentication", FALSE)

IsErrorDoc(doc) == "error" \in DOMAIN doc
SuccessPrinted ==
    script = "unifi_clients" /\ Exited /\ Len(stdout) = 1 /\ ~IsErrorDoc(stdout[1])

\* C1 (as claimed): every script that terminates after missing credentials or
\* a failed authentication terminates with exit code 1, never 0.
C1_ExitCodeOneOnAuthFailure ==
    (Exited /\ (CredentialsMissing \/ AuthenticationFailed)) => exit_code = 1

C3_BothFailExitNonZero ==
    (/\ script = "unifi_clients" /\ Exited
     /\ \/ (Failed(URL_auth) /\ Failed(URL_auth_legacy))
        \/ (Failed(URL_sta) /\ Failed(URL_sta_legacy)))
    => (/\ Len(stdout) >= 1
        /\ (IsErrorDoc(stdout[1]) \/ stdout[1].clients = <<>>)
        /\ exit_code # 0)

\* C4: a run of unifi_clients.py has printed nothing while it runs and exactly
\* one JSON document once it has exited, whatever the outcome.
C4_OneDocument ==
    script = "unifi_clients" =>
        /\ Len(stdout) <= 1
        /\ Exited <=> Len(stdout) = 1
        /\ Exited <=> exit_code # Running

C4_Witness_AuthFailureDocument ==
    /\ script = "unifi_clients" /\ Exited /\ exit_code = 1
    /\ AuthenticationFailed
    /\ Len(stdout) = 1 /\ IsErrorDoc(stdout[1])

\* C5 (as claimed): no run of any script issues more than two HTTP requests.
C5_AtMostTwoRequests == Len(requests) <= 2

\* C5 (amended): unifi_clients.py issues at most five requests (one or two
\* logins, then one device fetch, then one or two client fetches),
\* debug_topology.py at most two and test_unifi_auth.py at most four.
C5_RequestBudget ==
    /\ script = "unifi_clients" =>
         /\ Len(requests) <= 5
         /\ CountUrl(URL_auth) + CountUrl(URL_auth_legacy) <= 2
         /\ CountUrl(URL_device) <= 1
         /\ CountUrl(URL_sta) + CountUrl(URL_sta_legacy) <= 2
         /\ Requested(URL_device) => CountUrl(URL_auth) = 1
         /\ Requested(URL_sta) => CountUrl(URL_device) = 1
         /\ \A i, j \in DOMAIN requests :
               (requests[i].url \in LoginUrls /\ requests[j].url \in DataUrls) => i < j
    /\ script = "debug_topology" =>
         /\ Len(requests) <= 2
         /\ \A i \in DOMAIN requests :
               requests[i].url = (IF i = 1 THEN URL_auth ELSE URL_device)
    /\ script = "test_unifi_auth" => Len(requests) <= 4

C5_Witness_FiveRequests ==
    script = "unifi_clients" /\ Exited /\ Len(requests) = 5

\* C6 (as claimed): a failed primary stat/device request of unifi_clients.py
\* is followed by a request to the legacy :8443 device endpoint.
C6_DeviceLegacyFallback ==
    (script = "unifi_clients" /\ Failed(URL_device) /\ pc # "get_devices")
    => Requested(":8443/api/s/{site}/stat/device")

NonDecreasingBy(seq, field) ==
    \A i \in 1..(Len(seq) - 1) : StrLeq(Lower(seq[i][field]), Lower(seq[i + 1][field]))

\* C7 (as claimed): in the document of a successful run the clients and the
\* devices are each in non-decreasing order of lowercased name.
C7_SortedByName ==
    SuccessPrinted =>
        /\ NonDecreasingBy(stdout[1].clients, "name")
        /\ NonDecreasingBy(stdout[1].devices, "name")

\* C7 (amended): in the document of a successful run the clients are in
\* non-decreasing order of lowercased hostname and the devices in
\* non-decreasing order of lowercased name.
C7_SortedByHostname ==
    SuccessPrinted =>
        /\ NonDecreasingBy(stdout[1].clients, "hostname")
        /\ NonDecreasingBy(stdout[1].devices, "name")

\* the sort moved a client and a device: the fetched order was not sorted
C7_Witness_Reordered ==
    /\ SuccessPrinted
    /\ Len(raw_clients) >= 2 /\ Len(devices) >= 2
    /\ stdout[1].clients[1].mac # raw_clients[1].mac
    /\ stdout[1].devices # devices

\* C9: in unifi_clients.py every data fetch comes after a successful login,
\* none follows a failed authentication, the device fetch precedes the client
\* fetch, requests start only with credentials set, and the document of a
\* successful run is printed after both fetches.
C9_FixedOrder ==
    script = "unifi_clients" =>
        /\ \A i \in DOMAIN requests : requests[i].url \in DataUrls =>
              \E j \in 1..(i - 1) : /\ requests[j].url \in LoginUrls
                                    /\ ~Raises(requests[j].status)
        /\ AuthenticationFailed => \A i \in DOMAIN requests : requests[i].url \notin DataUrls
        /\ \A i, j \in DOMAIN requests :
              (requests[i].url = URL_device /\ requests[j].url \in ClientUrls) => i < j
        /\ \A i \in DOMAIN requests :
              requests[i].url \in ClientUrls => \E j \in 1..(i - 1) : requests[j].url = URL_device
        /\ requests # <<>> => ~CredentialsMissing
        /\ (Exited /\ exit_code = 0) => (Requested(URL_device) /\ Requested(URL_sta))

C9_Witness_FullRun ==
    /\ script = "unifi_clients" /\ Exited /\ exit_code = 0
    /\ Succeeded(URL_auth_legacy) /\ Requested(URL_device) /\ Requested(URL_sta)

PrimaryLoginStatus == requests[CHOOSE i \in DOMAIN requests : requests[i].url = URL_auth].status
AuthTestDone == script = "test_unifi_auth" /\ pc \in {"summary", "exited"}

\* C10 (as claimed): in test_auth_endpoint any failed primary login (an
\* exception or any status other than 200, 401 and 403 included) is followed
\* by exactly one legacy login, and failure is reported only after both
\* endpoints were attempted.
C10_AnyFailureTriesLegacy ==
    (AuthTestDone /\ Requested(URL_auth)) =>
        /\ PrimaryLoginStatus # 200 => CountUrl(URL_auth_legacy) = 1
        /\ AuthenticationFailed => (Requested(URL_auth) /\ Requested(URL_auth_legacy))

\* C10 (amended): in test_auth_endpoint a primary login that raises or answers
\* with a status other than 200, 401 and 403 is followed by exactly one legacy
\* login; a 401 or 403 makes the function report failure at once with no
\* legacy login; "Both endpoints failed" is reported only after both
\* endpoints were attempted, and no login endpoint is requested twice.
C10_LegacyUnlessRejected ==
    (AuthTestDone /\ Requested(URL_auth)) =>
        /\ CountUrl(URL_auth) = 1 /\ CountUrl(URL_auth_legacy) <= 1
        /\ PrimaryLoginStatus \notin {200, 401, 403} => CountUrl(URL_auth_legacy) = 1
        /\ PrimaryLoginStatus \in {401, 403} =>
              /\ CountUrl(URL_auth_legacy) = 0
              /\ AuthenticationFailed
        /\ (\E i \in DOMAIN report : report[i] = PR("Authentication", FALSE)) =>
              (Requested(URL_auth) /\ Requested(URL_auth_legacy))

C10_Witness_LegacyAfterServerError ==
    /\ AuthTestDone /\ Requested(URL_auth)
    /\ PrimaryLoginStatus = 500
    /\ Failed(URL_auth_legacy)
    /\ \E i \in DOMAIN report : report[i] = PR("Authentication", FALSE)

\* the devices as fetched and as formatted, before main() sorts them
Fetched == pc \in {"get_clients", "output", "exited"} /\ Len(devices) = Len(raw_devices)

\* the network_table entries the claim calls LAN entries with an address
LanEntries(d) ==
    LET nt == Get(d, "network_table", <<>>)
    IN {i \in DOMAIN nt :
          /\ \/ Contains(Lower(Get(nt[i], "name", S_empty)), S_lan)
             \/ Get(nt[i], "is_default", FALSE) = TRUE
          /\ SplitSlashFirst(Get(nt[i], "ip_subnet", S_empty)) # S_empty}

FirstLanAddress(d) ==
    LET e == LanEntries(d)
    IN SplitSlashFirst(d.network_table[CHOOSE i \in e : \A j \in e : i <= j].ip_subnet)

\* C11 (as claimed): a formatted gateway whose network_table has a LAN or
\* default entry with a non-empty address carries the address of the first
\* such entry as ip, whatever ip, config_network.ip and connect_request_ip
\* are; a device of any other category carries its own ip field, or "".
C11_GatewayPrefersLanIp ==
    Fetched => \A i \in DOMAIN raw_devices :
        /\ (devices[i].category = "gateway" /\ LanEntries(raw_devices[i]) # {})
              => devices[i].ip = FirstLanAddress(raw_devices[i])
        /\ devices[i].category # "gateway"
              => devices[i].ip = Get(raw_devices[i], "ip", S_empty)

\* C12: format_device maps usw/usw-pro/usw-flex to switch, uap/uap-pro/
\* uap-ac/u6 to access_point, ugw/udm/udr/uxg to gateway and any other type
\* to itself ("unknown" when absent); the output port_table is empty unless
\* the category is switch or gateway and then lists the input ports one for
\* one in order; ports_total is the input length and ports_used the number of
\* input ports that are up, so 0 <= ports_used <= ports_total.
C12_CategoryAndPorts ==
    Fetched => \A i \in DOMAIN raw_devices :
        LET d == raw_devices[i]
            out == devices[i]
            t == IF "type" \in DOMAIN d THEN d.type ELSE "unknown"
            ports == IF "port_table" \in DOMAIN d THEN d.port_table ELSE <<>>
            up == {k \in DOMAIN ports : "up" \in DOMAIN ports[k] /\ ports[k].up = TRUE}
        IN /\ out.type = t
           /\ t \in {"usw", "usw-pro", "usw-flex"} => out.category = "switch"
           /\ t \in {"uap", "uap-pro", "uap-ac", "u6"} => out.category = "access_point"
           /\ t \in {"ugw", "udm", "udr", "uxg"} => out.category = "gateway"
           /\ t \notin RecognisedTypes => out.category = t
           /\ out.category \notin {"switch", "gateway"} => out.port_table = <<>>
           /\ out.category \in {"switch", "gateway"} =>
                 /\ Len(out.port_table) = Len(ports)
                 /\ \A k \in DOMAIN ports :
                       /\ "port_idx" \in DOMAIN ports[k]
                             => out.port_table[k].port_idx = ports[k].port_idx
                       /\ out.port_table[k].up = (k \in up)
                       /\ "name" \in DOMAIN ports[k]
                             => out.port_table[k].name = ports[k].name
           /\ out.ports_total = Len(ports)
           /\ out.ports_used = Cardinality(up)
           /\ 0 <= out.ports_used /\ out.ports_used <= out.ports_total

\* a uxg gateway with two ports, one of them up, has been formatted
C12_Witness_GatewayPorts ==
    /\ Fetched /\ Len(devices) = 1
    /\ Get(raw_devices[1], "type", "unknown") = "uxg"
    /\ devices[1].category = "gateway"
    /\ devices[1].ports_total = 2 /\ devices[1].ports_used = 1
    /\ Len(devices[1].port_table) = 2

\* the fetched device records whose mac is m
DevicesWithMac(m) ==
    {i \in DOMAIN raw_devices : "mac" \in DOMAIN raw_devices[i] /\ raw_devices[i].mac = m}

\* name, else model, else "Unknown", of a fetched device record
DisplayName(d) ==
    IF "name" \in DOMAIN d THEN d.name
    ELSE IF "model" \in DOMAIN d THEN d.model
    ELSE S_Unknown

\* the last fetched device record whose mac is m
LastWithMac(m) ==
    raw_devices[CHOOSE i \in DevicesWithMac(m) : \A j \in DevicesWithMac(m) : j <= i]

\* what C13 says of a run whose device fetch failed
DeviceFetchFailureCase ==
    Failed(URL_device) =>
        /\ exit_code = 0
        /\ Requested(URL_sta)
        /\ Len(stdout[1].clients) = Len(raw_clients)
        /\ stdout[1].devices = <<>>
        /\ device_names = <<>>
        /\ \A k \in DOMAIN stdout[1].clients :
              stdout[1].clients[k].sw_name = S_UnknownSwitch

\* C13 (as claimed): in the printed document every client's sw_name is the
\* name (else model, else "Unknown") of the fetched device whose mac is the
\* client's sw_mac, and "Unknown Switch" exactly when no fetched device has
\* that mac; when the device fetch fails the run still prints the clients
\* with exit code 0 and every sw_name is "Unknown Switch".
C13_SwitchName ==
    SuccessPrinted =>
        /\ \A k \in DOMAIN stdout[1].clients :
              LET c == stdout[1].clients[k]
              IN /\ DevicesWithMac(c.sw_mac) # {} =>
                       c.sw_name = DisplayName(LastWithMac(c.sw_mac))
                 /\ (c.sw_name = S_UnknownSwitch) <=> (DevicesWithMac(c.sw_mac) = {})
        /\ DeviceFetchFailureCase

\* C13 (amended): every client's sw_name is the name (else model, else
\* "Unknown") of the last fetched device whose mac is the client's sw_mac,
\* and "Unknown Switch" whenever no fetched device has that mac; a sw_name of
\* "Unknown Switch" means that no fetched device has that mac or that the
\* device is itself named so.  The device-fetch-failure case is as claimed.
C13_SwitchNameLookup ==
    SuccessPrinted =>
        /\ \A k \in DOMAIN stdout[1].clients :
              LET c == stdout[1].clients[k]
              IN /\ DevicesWithMac(c.sw_mac) # {} =>
                       c.sw_name = DisplayName(LastWithMac(c.sw_mac))
                 /\ DevicesWithMac(c.sw_mac) = {} => c.sw_name = S_UnknownSwitch
                 /\ c.sw_name = S_UnknownSwitch =>
                       \/ DevicesWithMac(c.sw_mac) = {}
                       \/ DisplayName(LastWithMac(c.sw_mac)) = S_UnknownSwitch
        /\ DeviceFetchFailureCase

\* a printed document with one client behind a fetched gateway that has only
\* a model, and one client whose switch was not fetched
C13_Witness_KnownAndUnknownSwitch ==
    /\ SuccessPrinted /\ raw_devices # <<>>
    /\ \E k \in DOMAIN stdout[1].clients :
          /\ stdout[1].clients[k].sw_mac = "m3"
          /\ stdout[1].clients[k].sw_name = S_a
    /\ \E k \in DOMAIN stdout[1].clients :
          /\ DevicesWithMac(stdout[1].clients[k].sw_mac) = {}
          /\ stdout[1].clients[k].sw_name = S_UnknownSwitch

\* the client records of the document, as a bag of macs, are those fetched
SameClients ==
    \A m \in {"c1", "c2", "c3", "c4"} :
        Cardinality({k \in DOMAIN stdout[1].clients : stdout[1].clients[k].mac = m})
          = Cardinality({k \in DOMAIN raw_clients : raw_clients[k].mac = m})

CategorisedCount ==
    stdout[1].switch_count + stdout[1].ap_count + stdout[1].gateway_count

\* the counter statements of C14 that do not depend on which types count
CountersMatchLists ==
    /\ stdout[1].total_count = Len(raw_clients)
    /\ Len(stdout[1].clients) = Len(raw_clients)
    /\ SameClients
    /\ stdout[1].wired_count + stdout[1].wireless_count = stdout[1].total_count
    /\ stdout[1].wired_count =
          Cardinality({k \in DOMAIN raw_clients :
                          "is_wired" \in DOMAIN raw_clients[k] /\ raw_clients[k].is_wired})
    /\ stdout[1].device_count = Len(raw_devices)
    /\ Len(stdout[1].devices) = Len(raw_devices)
    /\ CategorisedCount <= stdout[1].device_count

AllTypesRecognised ==
    \A i \in DOMAIN raw_devices :
        "type" \in DOMAIN raw_devices[i] /\ raw_devices[i].type \in RecognisedTypes

\* C14 (as claimed): in the printed document total_count is the number of
\* client records fetched, wired_count + wireless_count = total_count,
\* device_count is the number of device records fetched, and switch_count +
\* ap_count + gateway_count <= device_count with equality exactly when every
\* device type is a recognised type.
C14_CountersAgree ==
    SuccessPrinted =>
        /\ CountersMatchLists
        /\ (CategorisedCount = stdout[1].device_count) <=> AllTypesRecognised

\* C14 (amended): as claimed, except that equality holds exactly when every
\* device's category is switch, access_point or gateway; every device of one
\* of the eleven recognised types has such a category, and so has a device
\* whose type is itself spelled switch, access_point or gateway.
C14_CountersAgreeByCategory ==
    SuccessPrinted =>
        /\ CountersMatchLists
        /\ (CategorisedCount = stdout[1].device_count)
              <=> \A i \in DOMAIN stdout[1].devices :
                     stdout[1].devices[i].category \in {"switch", "access_point", "gateway"}
        /\ AllTypesRecognised => CategorisedCount = stdout[1].device_count

\* a printed document with a wired and a wireless client and with a device
\* of an unrecognised type next to a recognised one
C14_Witness_MixedDocument ==
    /\ SuccessPrinted
    /\ stdout[1].wired_count = 1 /\ stdout[1].wireless_count = 1
    /\ stdout[1].device_count = 2 /\ CategorisedCount = 1
    /\ \E i \in DOMAIN raw_devices : Get(raw_devices[i], "type", "unknown") = "uph"

====
